---- MODULE Spec2Model ----
(***************************************************************************)
(* Model of src/src/app.ts: the OAuth authorization-code flow of the       *)
(* Spotify sample.  initializeSpotifyClientWithOAuth builds the            *)
(* authorization URL, getSpotifyAuthCode opens the browser and starts a    *)
(* loopback http server whose request handler settles a promise, and the   *)
(* coordinator then exchanges the code for a token and builds the client.  *)
(*                                                                         *)
(* The node process runs one callback at a time; promise continuations     *)
(* (microtasks) run before the next I/O callback.  The browser, the other  *)
(* local clients and the kernel's accept queue run concurrently with it.   *)
(***************************************************************************)
EXTENDS Integers, Sequences, FiniteSets, TLC

VARIABLES
    config,      \* app.ts:69  authorizationCodeAuthCredentials of config
    pc,          \* position of initializeSpotifyClientWithOAuth / getSpotifyAuthCode:
                 \* start, import, open, create, port, listen, awaiting, fetching,
                 \* done (the client was returned) or failed (it threw)
    browser,     \* TRUE once open.default(authUrl) has been called (app.ts:41)
    refused,     \* TRUE once a redirect met a port nobody was bound to
    server,      \* the http.Server of app.ts:43 and its listening handle
    port,        \* app.ts:60  const port
    conns,       \* connections the server has accepted, by client
    outcome,     \* the promise of app.ts:42
    responses,   \* status codes written by res.writeHead, in order
    last,        \* the request the handler ran for most recently, and its answer
    closeCalls,  \* number of server.close() calls
    authCode,    \* app.ts:87  const authCode
    fetchCalls,  \* number of fetchToken invocations (app.ts:89)
    token,       \* app.ts:89  const token
    session,     \* the client returned by client.withConfiguration (app.ts:95)
    error,       \* the error initializeSpotifyClientWithOAuth rejected with
    crash,       \* why the process died of an uncaught exception, if it did
    launch,      \* how the browser launch of app.ts:40-41 went
    main,        \* position of main (app.ts:103-117) and of main().catch (app.ts:174)
    steps        \* what the request handler did in its latest run, in order

vars == <<config, pc, browser, refused, server, port, conns, outcome, responses,
          last, closeCalls, authCode, fetchCalls, token, session, error, crash,
          launch, main, steps>>

---------------------------------------------------------------------------
(* Bounds of the model. *)

\* Clients that may hold a connection to the listener at the same time.
MaxConns == 2

\* Requests the handler is run for in one behaviour.
MaxRequests == 2

---------------------------------------------------------------------------
(* Values. *)

\* JavaScript null / undefined.
Null == "null"

\* app.ts:60  the port used when the redirect URI yields none.
DefaultPort == 4000

\* app.ts:20-21  process.env.SPOTIFY_CLIENT_ID || '' and the secret likewise.
ClientIds == {"", "cid"}
ClientSecrets == {"sec"}

\* app.ts:22  process.env.SPOTIFY_REDIRECT_URI || ''.  A redirect URI is
\* described by whether new URL() accepts it and by the port written in it.
RedirectUris ==
    { [text |-> "",                          parses |-> FALSE, hasPort |-> FALSE, written |-> 0],
      [text |-> "http://localhost/cb",       parses |-> TRUE,  hasPort |-> FALSE, written |-> 0],
      [text |-> "http://localhost:3000/cb",  parses |-> TRUE,  hasPort |-> TRUE,  written |-> 3000],
      [text |-> "http://localhost:80/cb",    parses |-> TRUE,  hasPort |-> TRUE,  written |-> 80],
      [text |-> "http://localhost:0/cb",     parses |-> TRUE,  hasPort |-> TRUE,  written |-> 0] }

\* app.ts:74-78  the three requested scopes.
OAuthScopes == <<"playlist-modify-private", "playlist-modify-public", "user-read-private">>

\* Values of a query parameter; the empty string is a parameter written "k=".
Vals == {"", "A", "B"}

Param(k, v) == [key |-> k, val |-> v]

\* Query strings of incoming requests, as their lists of decoded parameters.
Queries ==
    { <<>>,
      <<Param("code", "A")>>,
      <<Param("code", "B")>>,
      <<Param("code", "")>>,
      <<Param("error", "A")>>,
      <<Param("error", "A"), Param("code", "B")>>,
      <<Param("code", "A"), Param("error", "B")>>,
      <<Param("code", ""), Param("code", "A")>>,
      <<Param("code", "A"), Param("code", "B")>>,
      <<Param("state", "A"), Param("code", "")>> }

\* Host headers of incoming requests: one that gives a parsable URL and one
\* that does not.
Hosts == {"localhost:4000", "a b"}

Requests == [host : Hosts, query : Queries]

\* What fetchToken may hand back: a token, an empty one, or nothing.
Tokens == {"T1", "T2", "", Null}

\* The value of a const whose declaration has not been reached.
Unset == "unset"

Clients == 1..MaxConns

\* app.ts:40  the error a failed import('open') rejects with.
ImportError == "Cannot find module"

\* app.ts:57  the message of the error the handler rejects with.
NoCodeError == "No code found in callback"

NoRequest == [host |-> Null, query |-> <<>>, status |-> 0]
NoSession == [built |-> FALSE]
Pending == [state |-> "pending", value |-> Null]

---------------------------------------------------------------------------
(* Pure helpers, as the code computes them. *)

\* JavaScript truthiness of a string-or-null: if (code), !token.
Truthy(v) == v # Null /\ v # ""

\* url.searchParams.get(name): the value of the first parameter called name,
\* or null when there is none (app.ts:47).
SearchParamsGet(query, name) ==
    IF \E i \in 1..Len(query) : query[i].key = name
    THEN LET first == CHOOSE i \in 1..Len(query) :
                          /\ query[i].key = name
                          /\ \A j \in 1..(i - 1) : query[j].key # name
         IN  query[first].val
    ELSE Null

\* new URL(`http://${req.headers.host}${req.url}`) throws on a host that is
\* no valid authority (app.ts:45-46).
HostParses(host) == host # "a b"

\* app.ts:49 / app.ts:54  the status the handler writes.
StatusFor(code) == IF Truthy(code) THEN 200 ELSE 400

\* A handler without its else branch: it resolves with whatever get returned.
HandlerOutcomeAlwaysResolves(code) == [state |-> "resolved", value |-> code]

\* app.ts:52 / app.ts:57  what the handler settles the promise with.
HandlerOutcome(code) ==
    IF Truthy(code)
    THEN [state |-> "resolved", value |-> code]
    ELSE [state |-> "rejected", value |-> NoCodeError]

\* A handler that settles the promise before it answers and closes.
HandlerStepsSettleFirst(code) ==
    IF Truthy(code)
    THEN <<"resolve", "writeHead", "end", "close">>
    ELSE <<"reject", "writeHead", "end", "close">>

\* app.ts:48-58  the calls the handler makes, in the order it makes them.
HandlerSteps(code) ==
    IF Truthy(code)
    THEN <<"writeHead", "end", "close", "resolve">>
    ELSE <<"writeHead", "end", "close", "reject">>

\* A promise that could be completed again: the last call wins.
SettleAgain(o, new) == new

\* resolve / reject of a promise: only the first call has an effect.
Settle(o, new) == IF o.state = "pending" THEN new ELSE o

\* A handler that forgets server.close().
ServerCloseForgotten(s) == s

\* server.close(): the listening handle is released; a server that is not
\* listening stays as it is (app.ts:51, app.ts:56).
ServerClose(s) == IF s = "listening" THEN "closed" ELSE s

\* Number(new URL(redirectUri).port): the port written in the URI, where the
\* scheme's default port (80 for http) and an absent port both read "" -> 0.
UrlPort(uri) == IF uri.hasPort /\ uri.written # 80 THEN uri.written ELSE 0

\* app.ts:60  Number(new URL(redirectUri).port) || 4000
ListenPort(uri) == IF UrlPort(uri) # 0 THEN UrlPort(uri) ELSE DefaultPort

\* An await that races a timer: it may continue with the promise pending.
AwaitTimesOut(o) == TRUE

\* app.ts:87  the await continues only once the promise is settled; nothing
\* else (no timer) completes it.
AwaitReady(o) == o.state # "pending"

\* A coordinator that starts the listener again when the callback failed.
AwaitResumeRetry(o) == IF o.state = "resolved" THEN "fetching" ELSE "listen"

\* A coordinator that goes on to the exchange whatever the callback gave.
AwaitResumeAlways(o) == "fetching"

\* app.ts:61  server.listen(port, cb) names no host: the server binds the
\* unspecified address, that is every interface of the machine.
ListenHost == "::"

\* The interface a client reaches the machine on: the loopback for clients on
\* the machine itself, the network for the others.
Interface(c) == IF c % 2 = 1 THEN "loopback" ELSE "network"

\* Whether a socket bound to host takes connections arriving on iface.
Accepts(host, iface) == host = "::" \/ iface = "loopback"

\* app.ts:87-89  where the coordinator goes when the awaited promise settles.
AwaitResume(o) == IF o.state = "resolved" THEN "fetching" ELSE "failed"

\* A check for an absent token only: if (token === undefined).
TokenMissingAbsentOnly(t) == t = Null

\* app.ts:90  if (!token)
TokenMissing(t) == ~Truthy(t)

\* A rebuilt client without the spread of the configured credentials.
WithConfigurationNoSpread(cfg, t) ==
    [built             |-> TRUE,
     oAuthClientId     |-> Null,
     oAuthClientSecret |-> Null,
     oAuthRedirectUri  |-> Null,
     oAuthScopes       |-> <<>>,
     oAuthToken        |-> t]

\* app.ts:95-100  client.withConfiguration({authorizationCodeAuthCredentials:
\* {...config.authorizationCodeAuthCredentials, oAuthToken: token}})
WithConfiguration(cfg, t) ==
    [built             |-> TRUE,
     oAuthClientId     |-> cfg.oAuthClientId,
     oAuthClientSecret |-> cfg.oAuthClientSecret,
     oAuthRedirectUri  |-> cfg.oAuthRedirectUri,
     oAuthScopes       |-> cfg.oAuthScopes,
     oAuthToken        |-> t]

\* app.ts:105-112, 174  where main is once initializeSpotifyClientWithOAuth has
\* moved to position p: its await returns the client and getCurrentUsersProfile
\* is called, or it throws and main's rejection runs the catch handler.
MainAfter(p) ==
    IF p = "done" THEN "profile" ELSE IF p = "failed" THEN "caught" ELSE "auth"

\* A promise continuation is queued: it runs before any further I/O callback.
MicrotaskPending == pc = "awaiting" /\ outcome.state # "pending"

\* The process is alive: no uncaught exception has ended it.
Alive == crash = Null

---------------------------------------------------------------------------
(* Initial state: the module has been loaded, main has called              *)
(* initializeSpotifyClientWithOAuth, nothing has run yet.                  *)

Init ==
    /\ config \in [oAuthClientId : ClientIds, oAuthClientSecret : ClientSecrets,
                   oAuthRedirectUri : RedirectUris, oAuthScopes : {OAuthScopes}]
    /\ pc = "start"
    /\ browser = FALSE
    /\ refused = FALSE
    /\ server = "none"
    /\ port = 0
    /\ conns = [c \in Clients |-> "closed"]
    /\ outcome = Pending
    /\ responses = <<>>
    /\ last = NoRequest
    /\ closeCalls = 0
    /\ authCode = Unset
    /\ fetchCalls = 0
    /\ token = Unset
    /\ session = NoSession
    /\ error = Null
    /\ crash = Null
    /\ launch = "none"
    /\ main = "auth"
    /\ steps = <<>>

---------------------------------------------------------------------------
(* The coordinator: initializeSpotifyClientWithOAuth and the synchronous   *)
(* part of getSpotifyAuthCode.                                             *)

\* app.ts:83-87, 40  new Client(config), buildAuthorizationUrl, the call of
\* getSpotifyAuthCode up to its await import('open').
StartFlow ==
    /\ Alive
    /\ pc = "start"
    /\ pc' = "import"
    /\ UNCHANGED <<config, browser, refused, server, port, conns, outcome, responses,
                   last, closeCalls, authCode, fetchCalls, token, session, error, crash,
                   launch, main, steps>>

\* app.ts:40  await import('open') resolves, or rejects: then getSpotifyAuthCode
\* rejects and the await of app.ts:87 throws.
ImportOpen ==
    /\ Alive
    /\ pc = "import"
    /\ \E loaded \in BOOLEAN :
          IF loaded
          THEN pc' = "open" /\ error' = error /\ launch' = launch
          ELSE pc' = "failed" /\ error' = ImportError /\ launch' = "importFailed"
    /\ main' = MainAfter(pc')
    /\ UNCHANGED <<config, browser, refused, server, port, conns, outcome, responses,
                   last, closeCalls, authCode, fetchCalls, token, session, crash,
                   steps>>

\* app.ts:41  open.default(authUrl): the browser is started on the URL, or the
\* launch fails and the promise open returned, which nothing awaits or
\* catches, will reject.  The call itself returns either way.
OpenBrowser ==
    /\ Alive
    /\ pc = "open"
    /\ \E started \in BOOLEAN :
          /\ browser' = started
          /\ launch' = IF started THEN "opened" ELSE "rejected"
    /\ pc' = "create"
    /\ UNCHANGED <<config, refused, server, port, conns, outcome, responses,
                   last, closeCalls, authCode, fetchCalls, token, session, error, crash,
                   main, steps>>

\* app.ts:41  the rejection of the promise open.default returned has no
\* handler: a runtime whose unhandled-rejection mode is throw (node's default
\* since 15) ends the process; one that only warns goes on, which is the
\* behaviour in which this step is never taken.  The rejection is reported
\* once the synchronous part of getSpotifyAuthCode, the next-tick 'error'
\* event of a failed listen and the queued promise continuations have run.
UnhandledRejection ==
    /\ Alive
    /\ launch = "rejected"
    /\ pc \notin {"create", "port", "listen"}
    /\ server # "bindError"
    /\ ~MicrotaskPending
    /\ crash' = "rejection"
    /\ server' = IF server = "listening" THEN "released" ELSE server
    /\ conns' = [k \in Clients |-> "closed"]
    /\ UNCHANGED <<config, pc, browser, refused, port, outcome, responses,
                   last, closeCalls, authCode, fetchCalls, token, session, error,
                   launch, main, steps>>

\* app.ts:42-43  new Promise(...), http.createServer(handler).
CreateServer ==
    /\ Alive
    /\ pc = "create"
    /\ server' = "created"
    /\ pc' = "port"
    /\ UNCHANGED <<config, browser, refused, port, conns, outcome, responses,
                   last, closeCalls, authCode, fetchCalls, token, session, error, crash,
                   launch, main, steps>>

\* app.ts:60  const port = Number(new URL(redirectUri).port) || 4000.  new URL
\* throws inside the promise executor, which rejects the promise.
ParsePort ==
    /\ Alive
    /\ pc = "port"
    /\ IF config.oAuthRedirectUri.parses
       THEN /\ port' = ListenPort(config.oAuthRedirectUri)
            /\ pc' = "listen"
            /\ outcome' = outcome
       ELSE /\ port' = port
            /\ pc' = "awaiting"
            /\ outcome' = Settle(outcome, [state |-> "rejected", value |-> "Invalid URL"])
    /\ UNCHANGED <<config, browser, refused, server, conns, responses,
                   last, closeCalls, authCode, fetchCalls, token, session, error, crash,
                   launch, main, steps>>

\* app.ts:61  server.listen(port, cb): the port is bound, or binding fails and
\* the server will emit 'error' on the next tick.  The executor returns and the
\* coordinator suspends at the await of app.ts:87.
Listen ==
    /\ Alive
    /\ pc = "listen"
    /\ \E bound \in BOOLEAN :
          server' = IF bound THEN "listening" ELSE "bindError"
    /\ pc' = "awaiting"
    /\ UNCHANGED <<config, browser, refused, port, conns, outcome, responses,
                   last, closeCalls, authCode, fetchCalls, token, session, error, crash,
                   launch, main, steps>>

\* The 'error' event of a failed listen: the server has no 'error' listener
\* (app.ts:43-63 registers none), so the event is thrown as an uncaught
\* exception and the process dies; the promise is left pending.
ServerErrorEvent ==
    /\ Alive
    /\ pc = "awaiting"
    /\ server = "bindError"
    /\ crash' = "listen"
    /\ UNCHANGED <<config, pc, browser, refused, server, port, conns, outcome, responses,
                   last, closeCalls, authCode, fetchCalls, token, session, error,
                   launch, main, steps>>

\* app.ts:87-89  the await of getSpotifyAuthCode returns the code and fetchToken
\* is called with it, or throws the rejection out of the function.
AwaitReturn ==
    /\ Alive
    /\ pc = "awaiting"
    /\ AwaitReady(outcome)
    /\ pc' = AwaitResume(outcome)
    /\ IF pc' = "fetching"
       THEN /\ authCode' = outcome.value
            /\ fetchCalls' = fetchCalls + 1
            /\ error' = error
       ELSE /\ authCode' = authCode
            /\ fetchCalls' = fetchCalls
            /\ error' = outcome.value
    /\ main' = MainAfter(pc')
    /\ UNCHANGED <<config, browser, refused, server, port, conns, outcome, responses,
                   last, closeCalls, token, session, crash,
                   launch, steps>>

\* app.ts:89-100  fetchToken answers: a missing token throws "Failed to fetch
\* token!", otherwise the client is rebuilt with the token.
FetchTokenReturn ==
    /\ Alive
    /\ pc = "fetching"
    /\ \E t \in Tokens :
          /\ token' = t
          /\ IF TokenMissing(t)
             THEN /\ pc' = "failed"
                  /\ error' = "Failed to fetch token!"
                  /\ session' = session
             ELSE /\ pc' = "done"
                  /\ error' = error
                  /\ session' = WithConfiguration(config, t)
    /\ main' = MainAfter(pc')
    /\ UNCHANGED <<config, browser, refused, server, port, conns, outcome, responses,
                   last, closeCalls, authCode, fetchCalls, crash,
                   launch, steps>>

\* app.ts:89  fetchToken rejects (the provider refuses the code).
FetchTokenThrows ==
    /\ Alive
    /\ pc = "fetching"
    /\ pc' = "failed"
    /\ error' = "OAuthProviderError"
    /\ main' = MainAfter(pc')
    /\ UNCHANGED <<config, browser, refused, server, port, conns, outcome, responses,
                   last, closeCalls, authCode, fetchCalls, token, session, crash,
                   launch, steps>>

\* app.ts:112-117  getCurrentUsersProfile answers: with a user id main goes on
\* to prompt for the artist name, without one or with an ApiError it throws
\* into the catch handler of app.ts:174.
ProfileReturn ==
    /\ Alive
    /\ main = "profile"
    /\ \E userId \in BOOLEAN : main' = IF userId THEN "prompt" ELSE "caught"
    /\ UNCHANGED <<config, pc, browser, refused, server, port, conns, outcome, responses,
                   last, closeCalls, authCode, fetchCalls, token, session, error, crash,
                   launch, steps>>

\* app.ts:120-129  the artist name is entered and searchController.search is
\* called with it.
PromptAnswered ==
    /\ Alive
    /\ main = "prompt"
    /\ main' = "search"
    /\ UNCHANGED <<config, pc, browser, refused, server, port, conns, outcome, responses,
                   last, closeCalls, authCode, fetchCalls, token, session, error, crash,
                   launch, steps>>

\* app.ts:123-172  search answers and main runs to its end, or search throws
\* into the catch handler.
SearchReturn ==
    /\ Alive
    /\ main = "search"
    /\ \E found \in BOOLEAN : main' = IF found THEN "ended" ELSE "caught"
    /\ UNCHANGED <<config, pc, browser, refused, server, port, conns, outcome, responses,
                   last, closeCalls, authCode, fetchCalls, token, session, error, crash,
                   launch, steps>>

---------------------------------------------------------------------------
(* The network: clients of the listener and the request handler.           *)

\* A client connects to the bound port and the server accepts it.
Connect(c) ==
    /\ Alive
    /\ server = "listening"
    /\ Accepts(ListenHost, Interface(c))
    /\ conns[c] = "closed"
    /\ conns' = [conns EXCEPT ![c] = "open"]
    /\ UNCHANGED <<config, pc, browser, refused, server, port, outcome, responses,
                   last, closeCalls, authCode, fetchCalls, token, session, error, crash,
                   launch, main, steps>>

\* The browser follows the provider's redirect while no socket is bound to the
\* port: the connection is refused and the redirect is lost.
RedirectRefused ==
    /\ Alive
    /\ browser
    /\ server \notin {"listening", "closed"}
    /\ ~refused
    /\ refused' = TRUE
    /\ UNCHANGED <<config, pc, browser, server, port, conns, outcome, responses,
                   last, closeCalls, authCode, fetchCalls, token, session, error, crash,
                   launch, main, steps>>

\* A connection ends (the client hangs up, or the keep-alive timeout passes).
Disconnect(c) ==
    /\ Alive
    /\ conns[c] = "open"
    /\ conns' = [conns EXCEPT ![c] = "closed"]
    /\ UNCHANGED <<config, pc, browser, refused, server, port, outcome, responses,
                   last, closeCalls, authCode, fetchCalls, token, session, error, crash,
                   launch, main, steps>>

\* app.ts:43-59  the request handler, run for a request that arrived on an
\* accepted connection.  server.close() leaves accepted connections open.
HandleRequest(c, req) ==
    /\ Alive
    /\ ~MicrotaskPending
    /\ conns[c] = "open"
    /\ Len(responses) < MaxRequests
    /\ HostParses(req.host)
    /\ LET code == SearchParamsGet(req.query, "code") IN
          /\ responses' = Append(responses, StatusFor(code))
          /\ last' = [host |-> req.host, query |-> req.query, status |-> StatusFor(code)]
          /\ server' = ServerClose(server)
          /\ closeCalls' = closeCalls + 1
          /\ outcome' = Settle(outcome, HandlerOutcome(code))
          /\ steps' = HandlerSteps(code)
    /\ UNCHANGED <<config, pc, browser, refused, port, conns,
                   authCode, fetchCalls, token, session, error, crash,
                   launch, main>>

\* app.ts:45-46  new URL(fullUrl) throws in the handler: nothing catches it, the
\* process dies of the uncaught exception and the OS releases its sockets.
HandleRequestThrows(c, req) ==
    /\ Alive
    /\ ~MicrotaskPending
    /\ conns[c] = "open"
    /\ ~HostParses(req.host)
    /\ last' = [host |-> req.host, query |-> req.query, status |-> 0]
    /\ crash' = "handler"
    /\ server' = IF server = "listening" THEN "released" ELSE server
    /\ conns' = [k \in Clients |-> "closed"]
    /\ UNCHANGED <<config, pc, browser, refused, port, outcome, responses,
                   closeCalls, authCode, fetchCalls, token, session, error,
                   launch, main, steps>>

---------------------------------------------------------------------------

Next ==
    \/ StartFlow
    \/ ImportOpen
    \/ OpenBrowser
    \/ UnhandledRejection
    \/ CreateServer
    \/ ParsePort
    \/ Listen
    \/ ServerErrorEvent
    \/ AwaitReturn
    \/ FetchTokenReturn
    \/ FetchTokenThrows
    \/ ProfileReturn
    \/ PromptAnswered
    \/ SearchReturn
    \/ RedirectRefused
    \/ \E c \in Clients : Connect(c)
    \/ \E c \in Clients : Disconnect(c)
    \/ \E c \in Clients, req \in Requests : HandleRequest(c, req)
    \/ \E c \in Clients, req \in Requests : HandleRequestThrows(c, req)

Spec == Init /\ [][Next]_vars

\* The node event loop runs a queued promise continuation (the await of
\* app.ts:87 once the promise is settled) and delivers the answer of the token
\* endpoint once it has arrived (the await of app.ts:89).
FairSpec ==
    /\ Spec
    /\ WF_vars(AwaitReturn)
    /\ WF_vars(FetchTokenReturn \/ FetchTokenThrows)

---------------------------------------------------------------------------
(* Vocabulary of the properties. *)

\* The query string carries a code parameter, and none with an empty value.
CarriesCode(query) ==
    /\ \E i \in 1..Len(query) : query[i].key = "code"
    /\ \A i \in 1..Len(query) : query[i].key = "code" => query[i].val # ""

\* The query string has no code parameter, or only empty ones.
LacksCode(query) ==
    \A i \in 1..Len(query) : query[i].key = "code" => query[i].val = ""

\* The non-empty code values the query string carries.
CodesOf(query) ==
    {query[i].val : i \in {j \in 1..Len(query) : query[j].key = "code" /\ query[j].val # ""}}

\* The handler has been run for a request.
Handled == last # NoRequest

\* initializeSpotifyClientWithOAuth has returned or thrown.
Terminal == pc \in {"done", "failed"}

\* The state of the flow in the words of the state machine: Idle until the
\* listener has been started, then what the callback and the exchange gave.
FailedAs(e) ==
    IF e = NoCodeError THEN "CallbackFailed"
    ELSE IF e = ImportError THEN "LaunchFailed"
    ELSE IF e = "Invalid URL" THEN "ConfigFailed"
    ELSE "TokenFetchFailed"

FlowState ==
    IF pc = "done" THEN "Authenticated"
    ELSE IF pc = "failed" THEN FailedAs(error)
    ELSE IF pc = "fetching" THEN "ExchangingToken"
    ELSE IF pc = "awaiting"
         THEN IF outcome.state = "resolved" THEN "CodeReceived"
              ELSE IF outcome.state = "rejected" THEN FailedAs(outcome.value)
              ELSE "AwaitingCallback"
    ELSE "Idle"

\* The transitions of the state machine as the claim lists them.
ListedTransitions ==
    { <<"Idle", "AwaitingCallback">>,
      <<"AwaitingCallback", "CodeReceived">>,
      <<"CodeReceived", "ExchangingToken">>,
      <<"ExchangingToken", "Authenticated">>,
      <<"AwaitingCallback", "CallbackFailed">>,
      <<"ExchangingToken", "TokenFetchFailed">> }

\* The failures before the listener is bound.
StartupFailures ==
    { <<"Idle", "LaunchFailed">>, <<"Idle", "ConfigFailed">> }

\* No retry: the listener is started at most once, fetchToken called at most once.
NoRetryStep ==
    /\ (server # "listening" /\ server' = "listening") => (server = "created" /\ closeCalls = 0)
    /\ fetchCalls' <= 1

\* The position of a call in the handler's latest run, 0 when it was not made.
StepAt(call) ==
    IF \E i \in 1..Len(steps) : steps[i] = call
    THEN CHOOSE i \in 1..Len(steps) : steps[i] = call
    ELSE 0

\* The position at which the handler's latest run settled the promise.
SettledAt == IF StepAt("resolve") # 0 THEN StepAt("resolve") ELSE StepAt("reject")

\* The port the claim expects the listener on: the one written in the
\* redirect URI, 4000 when none or 0 is written.
WrittenPort(uri) == IF uri.hasPort /\ uri.written # 0 THEN uri.written ELSE DefaultPort

\* The value of the first code parameter of a query string that has one.
FirstCodeOf(query) ==
    LET codes == {i \in 1..Len(query) : query[i].key = "code"}
    IN  IF codes = {} THEN Null
        ELSE query[CHOOSE i \in codes : \A j \in codes : i <= j].val

---------------------------------------------------------------------------
(* Properties. *)

\* C1: once the promise of getSpotifyAuthCode is settled (resolved with a code
\* or rejected), no later step changes it: no request on a new or an already
\* open connection produces a second outcome.
C1_SingleOutcome == [][outcome.state # "pending" => outcome' = outcome]_vars

\* The handler ran again after the promise was settled, for a request that
\* would have settled it differently.
C1_Witness ==
    /\ Len(responses) >= 2
    /\ last.status # 0
    /\ HandlerOutcome(SearchParamsGet(last.query, "code")) # outcome

\* C2: every request whose query string carries a non-empty code is answered
\* with status 200 and the promise is resolved with that code, never rejected
\* with the no-code error.
C2_CodeRequestResolves ==
    (Handled /\ CarriesCode(last.query)) =>
        /\ last.status = 200
        /\ outcome.state = "resolved"
        /\ outcome.value \in CodesOf(last.query)

\* C3: every request whose query string has no code parameter, or only empty
\* ones, is answered with status 400 and the promise is rejected with the
\* no-code error, never resolved with a code.
C3_NoCodeRequestRejects ==
    (Handled /\ LacksCode(last.query)) =>
        /\ last.status = 400
        /\ outcome.state = "rejected"
        /\ outcome.value = NoCodeError

\* C4: when the callback outcome is the no-code error, fetchToken is never
\* invoked, no client is built, and the coordinator is either about to throw
\* or has thrown that error.
C4_CallbackErrorStopsFlow ==
    (outcome.state = "rejected" /\ outcome.value = NoCodeError) =>
        /\ fetchCalls = 0
        /\ authCode = Unset
        /\ token = Unset
        /\ session = NoSession
        /\ pc \in {"awaiting", "failed"}
        /\ pc = "failed" => error = NoCodeError

\* The flow has failed with the callback error.
C4_Witness ==
    /\ outcome.state = "rejected"
    /\ outcome.value = NoCodeError
    /\ pc = "failed"
    /\ error = NoCodeError

\* C5: when fetchToken hands back an empty or absent token, the flow fails
\* with "Failed to fetch token!" and no client is built.
C5_EmptyTokenFails ==
    token \in {"", Null} =>
        /\ pc = "failed"
        /\ error = "Failed to fetch token!"
        /\ session = NoSession

\* fetchToken was called with the code of the callback and gave an empty token.
C5_Witness ==
    /\ token = ""
    /\ fetchCalls = 1
    /\ outcome.state = "resolved"
    /\ pc = "failed"

\* C6: when the callback gave a code and fetchToken a non-empty token, the
\* flow returns a client whose credentials carry that token and the
\* configured client id, secret, redirect URI and scopes.
C6_SessionCarriesToken ==
    (outcome.state = "resolved" /\ token \in Tokens /\ token \notin {"", Null}) =>
        /\ pc = "done"
        /\ session.built
        /\ session.oAuthToken = token
        /\ session.oAuthClientId = config.oAuthClientId
        /\ session.oAuthClientSecret = config.oAuthClientSecret
        /\ session.oAuthRedirectUri = config.oAuthRedirectUri
        /\ session.oAuthScopes = OAuthScopes

\* The flow returned a client built from the second of the two tokens.
C6_Witness ==
    /\ pc = "done"
    /\ token = "T2"
    /\ session.built
    /\ config.oAuthClientId = "cid"

\* C7: the browser is never open on the authorization URL while the
\* listener's port has not been bound yet.
C7_ListeningBeforeBrowser ==
    browser => server \in {"listening", "closed", "released"}

\* C8: when binding the port fails, the failure is delivered to the caller:
\* the promise is rejected with the bind error and the flow fails with it;
\* the process does not die with the promise pending.
C8_BindFailureDelivered ==
    crash = "listen" =>
        /\ outcome.state = "rejected"
        /\ pc = "failed"

\* C9 as stated: wherever the promise is settled or the flow has ended,
\* server.close has been called and the listener is not bound.
C9_AlwaysClosed ==
    (outcome.state # "pending" \/ Terminal) =>
        /\ closeCalls > 0
        /\ server # "listening"

\* C9 as amended: wherever the promise is settled, the flow has ended or the
\* process has died, the listener is not bound; and wherever the handler has
\* answered a request, server.close has been called.
C9_NeverLeftBound ==
    /\ (outcome.state # "pending" \/ Terminal \/ ~Alive) => server # "listening"
    /\ Len(responses) > 0 => (closeCalls > 0 /\ server = "closed")

\* The handler rejected the promise of a listening server, the flow failed.
C9_Witness ==
    /\ pc = "failed"
    /\ error = NoCodeError
    /\ server = "closed"
    /\ closeCalls = 1

\* C10: the handler writes at most one response in one run.
C10_OneResponse == Len(responses) <= 1

\* C11: a failure of the browser launcher does not end the flow: neither a
\* failed import of the open module fails it, nor does the rejection of the
\* promise open returned end the process.
C11_LaunchFailureTolerated ==
    /\ launch = "importFailed" => pc # "failed"
    /\ launch = "rejected" => crash # "rejection"

\* C12: main makes a downstream call only with a client built from a
\* non-empty token, and every failure of the authentication phase (callback
\* error, empty token, bind failure) reaches main's catch handler without a
\* downstream call having been made.
C12_NoPartialSuccess ==
    /\ main \in {"profile", "prompt", "search", "ended"} =>
          (pc = "done" /\ session.built /\ Truthy(session.oAuthToken))
    /\ pc = "failed" => main = "caught"
    /\ crash = "listen" => main = "caught"

\* C13 as stated: the flow changes state only along the listed transitions
\* (so Authenticated and the Failed states are never left), the listener is
\* started at most once and fetchToken is called at most once.
C13_ListedTransitionsOnly ==
    [][ /\ FlowState' # FlowState => <<FlowState, FlowState'>> \in ListedTransitions
        /\ NoRetryStep ]_vars

\* C13 as amended: the same, with the two failures that end the flow before
\* the listener is bound: the open module does not load, the redirect URI
\* does not parse.
C13_TransitionsOnly ==
    [][ /\ FlowState' # FlowState =>
              <<FlowState, FlowState'>> \in ListedTransitions \cup StartupFailures
        /\ NoRetryStep ]_vars

\* The exchange failed, and the handler ran once more after the flow had ended.
C13_Witness ==
    /\ pc = "failed"
    /\ error = "Failed to fetch token!"
    /\ fetchCalls = 1
    /\ Len(responses) = 2

\* C14: in both branches the handler writes the response, then closes the
\* listener, then settles the promise; hence the coordinator never resumes,
\* and fetchToken never starts, while the listener accepts new connections.
C14_RespondCloseSettle ==
    /\ steps # <<>> =>
          /\ 0 < StepAt("writeHead")
          /\ StepAt("writeHead") < StepAt("end")
          /\ StepAt("end") < StepAt("close")
          /\ StepAt("close") < SettledAt
    /\ MicrotaskPending => server # "listening"
    /\ (fetchCalls > 0 \/ pc \in {"fetching", "done"}) => server # "listening"

\* fetchToken is running after a handler run that ended with resolve.
C14_Witness ==
    /\ pc = "fetching"
    /\ StepAt("resolve") = 4
    /\ server = "closed"

\* C15: the first incoming request, whatever its Host header, is finalised:
\* it is answered with 200 or 400, the listener is closed and the promise is
\* settled.
C15_FirstRequestFinalised ==
    Handled =>
        /\ last.status \in {200, 400}
        /\ closeCalls > 0
        /\ server # "listening"
        /\ outcome.state # "pending"

\* C16: once a request has arrived at the bound listener, the flow eventually
\* reaches a terminal state with the listener closed, the token endpoint
\* answering and the event loop running what is queued.
C16_EventuallyTerminal ==
    Handled ~> (Terminal /\ server # "listening")

C18_PortAndFailFast ==
    /\ server = "listening" => port = WrittenPort(config.oAuthRedirectUri)
    /\ (~config.oAuthRedirectUri.parses /\ outcome.state = "rejected") =>
          /\ launch = "none"
          /\ ~browser
          /\ server \in {"none", "created"}

\* C19: no connection that arrives on a non-loopback interface is accepted.
C19_LoopbackOnly ==
    \A c \in Clients : conns[c] = "open" => Interface(c) = "loopback"

\* C20: fetchToken is called only right after the first handled request has
\* resolved the promise, with the non-empty code of that request; the code it
\* was called with never changes afterwards, whatever later requests carry.
C20_ExchangeUsesSettlingCode ==
    [][ /\ fetchCalls' # fetchCalls =>
              /\ outcome.state = "resolved"
              /\ Len(responses) = 1
              /\ last.status = 200
              /\ authCode' = FirstCodeOf(last.query)
              /\ authCode' \notin {"", Null, Unset}
        /\ authCode # Unset => authCode' = authCode
        /\ fetchCalls' > 0 => authCode' = outcome'.value ]_vars

\* fetchToken was called with code A, and a later request carried code B.
C20_Witness ==
    /\ fetchCalls = 1
    /\ authCode = "A"
    /\ Len(responses) = 2
    /\ last.status = 200
    /\ FirstCodeOf(last.query) = "B"

====
